---- MODULE Spec2Model ----
(***************************************************************************)
(* Two-step admin login, client session store and route authorization of   *)
(* the campus marketplace frontend.                                        *)
(*                                                                         *)
(* The browser side (authStore, api.ts, Login, Navbar, ProtectedRoute) is  *)
(* translated from the TypeScript sources.  The FastAPI backend is not     *)
(* part of the sources; the backend definitions follow the protocol        *)
(* sections of the design document.                                        *)
(*                                                                         *)
(* Further specifications cover the comparison list and debounce of        *)
(* lib/utils.ts, the debounced filters of Home and the dialogs of          *)
(* AdminManageUsers.                                                       *)
(***************************************************************************)
EXTENDS Integers, Sequences, FiniteSets, Bags, TLC

(***************************************************************************)
(* Bounds                                                                  *)
(***************************************************************************)
MaxTickets  == 1   \* Temporary Authentication Tickets the server mints
MaxSessions == 2   \* access tokens the server mints
MaxInFlight == 1   \* HTTP requests of this tab in flight at once

(***************************************************************************)
(* Values                                                                  *)
(***************************************************************************)
\* Strings are sequences of symbols; " " is the white-space symbol.
\* The empty sequence stands for null / undefined / "" / an absent
\* localStorage key: the code only ever tests these for truthiness.
Null == <<>>

Truthy(s) == s # Null

Digit == <<"1", "2", "3", "4", "5", "6">>

USER  == "user"
ADMIN == "admin"

NoUser == [user_id |-> "none", role |-> "none"]

Accounts == {"alice", "admin1", "admin2"}

Role == [a \in Accounts |-> IF a = "alice" THEN USER ELSE ADMIN]

Password ==
    [a \in Accounts |-> IF a = "alice" THEN "pw-alice"
                       ELSE IF a = "admin1" THEN "pw-admin1" ELSE "pw-admin2"]

SecurityAnswer ==
    [a \in Accounts |-> IF a = "admin1" THEN "ans-admin1"
                       ELSE IF a = "admin2" THEN "ans-admin2" ELSE ""]

SecurityQuestion == [a \in Accounts |-> IF Role[a] = ADMIN THEN "First pet?" ELSE ""]

DefaultQuestion == "Best movie of all time?"

\* what a person can type into the login form
Identifiers == {"alice", "admin1", "nobody", ""}
Passwords   == {Password["alice"], Password["admin1"], ""}
Answers     == {SecurityAnswer["admin1"], SecurityAnswer["admin2"], ""}

UserSummary(a) == [user_id |-> a, role |-> Role[a]]

\* tokens as the backend mints them (no white space inside)
AccessToken(a, n)  == <<"acc", a, Digit[n]>>
RefreshToken(a, n) == <<"ref", a, Digit[n]>>
TempToken(a, n)    == <<"tmp", a, Digit[n]>>

\* String.prototype.trim
RECURSIVE TrimLeft(_)
TrimLeft(s) == IF s # <<>> /\ Head(s) = " " THEN TrimLeft(Tail(s)) ELSE s

RECURSIVE TrimRight(_)
TrimRight(s) ==
    IF s # <<>> /\ s[Len(s)] = " " THEN TrimRight(SubSeq(s, 1, Len(s) - 1)) ELSE s

Trim(s) == TrimRight(TrimLeft(s))

\* JSON.stringify / JSON.parse of a TokenUserInfo
JSONstringify(u) == IF u = NoUser THEN <<"undefined">> ELSE <<"{", u.user_id, u.role, "}">>

JSONparses(s) == Len(s) = 4 /\ s[1] = "{" /\ s[4] = "}"

\* a parse that mixes up the fields
JSONparseSwapped(s) == [user_id |-> s[3], role |-> s[2]]

JSONparse(s) == [user_id |-> s[2], role |-> s[3]]

\* `Bearer ${token}`
Bearer(tok) == <<"Bearer ">> \o tok

(***************************************************************************)
(* authStore (store/authStore.ts) over a client state [store, ls]          *)
(***************************************************************************)
EmptyStore == [user |-> NoUser, token |-> Null, isAuthenticated |-> FALSE]

EmptyStorage == [access_token |-> Null, refresh_token |-> Null, user |-> Null]

\* localStorage.removeItem of the three session keys
RemoveSessionKeys(ls) == EmptyStorage

\* setAuth that forgets localStorage.setItem('user', ...)
setAuthNoUser(c, token, user) ==
    [store |-> [user |-> user, token |-> token, isAuthenticated |-> TRUE],
     ls    |-> [c.ls EXCEPT !.access_token = IF token = Null THEN <<"undefined">> ELSE token]]

\* setAuth that forgets this.isAuthenticated = true
setAuthNoFlag(c, token, user) ==
    [store |-> [user |-> user, token |-> token, isAuthenticated |-> c.store.isAuthenticated],
     ls    |-> [c.ls EXCEPT !.access_token = IF token = Null THEN <<"undefined">> ELSE token,
                            !.user = JSONstringify(user)]]

setAuth(c, token, user) ==
    [store |-> [user |-> user, token |-> token, isAuthenticated |-> TRUE],
     ls    |-> [c.ls EXCEPT !.access_token = IF token = Null THEN <<"undefined">> ELSE token,
                            !.user = JSONstringify(user)]]

\* clearAuth that leaves the three localStorage keys in place
clearAuthKeepsStorage(c) == [store |-> EmptyStore, ls |-> c.ls]

\* clearAuth that resets nothing in memory
clearAuthKeepsMemory(c) == [store |-> c.store, ls |-> RemoveSessionKeys(c.ls)]

clearAuth(c) ==
    [store |-> EmptyStore, ls |-> RemoveSessionKeys(c.ls)]

initAuth(c) ==
    IF Truthy(c.ls.access_token) /\ Truthy(c.ls.user)
    THEN IF JSONparses(c.ls.user)
         THEN [c EXCEPT !.store = [user |-> JSONparse(c.ls.user),
                                   token |-> c.ls.access_token,
                                   isAuthenticated |-> TRUE]]
         \* this.token was assigned before JSON.parse threw; clearAuth resets it
         ELSE clearAuth(c)
    ELSE c

(***************************************************************************)
(* api.ts                                                                  *)
(***************************************************************************)
\* apiRequest that never reads localStorage
apiRequestNoToken(ls, optAuth) == optAuth

\* apiRequest: the Authorization header that goes on the wire.  optAuth is
\* the Authorization entry of options.headers (Null when there is none).
apiRequest(ls, optAuth) ==
    IF Truthy(ls.access_token) THEN Bearer(ls.access_token) ELSE optAuth

\* login(): POST /api/auth/login, no headers of its own
login(ls) == apiRequest(ls, Null)

\* adminLoginStep2(): POST /api/auth/admin/verify-security
adminLoginStep2(ls, tempToken) == apiRequest(ls, Bearer(Trim(tempToken)))

\* logout(): POST /api/auth/logout
logoutRequest(ls) == apiRequest(ls, Null)

\* uploadFile(): its own fetch with the stored token
uploadFile(ls) == IF Truthy(ls.access_token) THEN Bearer(ls.access_token) ELSE Null

(***************************************************************************)
(* ProtectedRoute.tsx and the route table of App.tsx                       *)
(***************************************************************************)
NoRole == "norole"

\* checkAuthorization: initAuth() first, then the three tests.
\* Returns the client state after initAuth and the decision.
checkAuthorization(c, requireAuth, requireRole, excludeRole) ==
    LET c1 == initAuth(c)
        a1 == ~(requireAuth /\ ~c1.store.isAuthenticated)
        a2 == ~(requireRole # NoRole /\ c1.store.user.role # requireRole)
        a3 == ~(excludeRole # NoRole /\ c1.store.user.role = excludeRole)
    IN  [c |-> c1, authorized |-> a1 /\ a2 /\ a3]

Routes == {"/", "/login", "/my-items", "/admin/dashboard"}

ProtectedRoutes == {"/my-items", "/admin/dashboard"}

RequireRole(p) == IF p = "/admin/dashboard" THEN ADMIN ELSE NoRole

ExcludeRole(p) == IF p = "/my-items" THEN ADMIN ELSE NoRole

\* pages that render <Navbar/>, whose effect calls authStore.initAuth()
HasNavbar(p) == p \in {"/", "/my-items"}

\* pages with a logout button (Navbar or AdminNavbar)
HasLogout(p) == p \in {"/", "/my-items", "/admin/dashboard"}

\* Rendering route p: ProtectedRoute decides, <Navigate to="/login"> on refusal.
\* Returns [c, route].
Render(c, p) ==
    IF p \in ProtectedRoutes
    THEN LET r == checkAuthorization(c, TRUE, RequireRole(p), ExcludeRole(p))
         IN  IF r.authorized THEN [c |-> r.c, route |-> p]
                             ELSE [c |-> r.c, route |-> "/login"]
    ELSE IF HasNavbar(p) THEN [c |-> initAuth(c), route |-> p]
    ELSE [c |-> c, route |-> p]

\* ProtectedRoute keeps its isAuthorized state while the location changes from
\* one protected route to another (same component at the same place in the
\* tree): the first render after the change still uses the value computed for
\* the route left, and shows the children of p before the effect re-checks
StaleRender(from, p) == from \in ProtectedRoutes /\ p \in ProtectedRoutes

\* a (re)load of the page at route p: the module is evaluated again, so the
\* store starts empty and authStore.initAuth() runs at module load
ReloadAt(ls, p) == Render(initAuth([store |-> EmptyStore, ls |-> ls]), p)

(***************************************************************************)
(* HTTP messages                                                           *)
(***************************************************************************)
Resp(status, detail, at, rt, user, tt, q, rs) ==
    [status |-> status, detail |-> detail, access_token |-> at, refresh_token |-> rt,
     user |-> user, temp_token |-> tt, security_question |-> q, requires_security |-> rs]

ErrorResp(status, detail) == Resp(status, detail, Null, Null, NoUser, Null, "", FALSE)

OkResp(status) == Resp(status, "", Null, Null, NoUser, Null, "", FALSE)

\* A pending fetch.  ep: endpoint; auth: Authorization header on the wire;
\* ident/secret: body; src: who awaits the answer; arg: the tempToken argument
\* of adminLoginStep2; stage/tk: the backend's progress on a step-2 request
Req(ep, auth, ident, secret, src, arg) ==
    [ep |-> ep, auth |-> auth, ident |-> ident, secret |-> secret, src |-> src,
     arg |-> arg, stage |-> "sent", tk |-> 0]

LOGIN  == "/api/auth/login"
VERIFY == "/api/auth/admin/verify-security"
LOGOUT == "/api/auth/logout"
STATS  == "/api/admin/stats"
UPLOAD == "/api/files/upload"

\* the token of a bearer header
BearerTok(auth) == IF auth # Null /\ Head(auth) = "Bearer " THEN Tail(auth) ELSE Null

Count(b, r) == IF r \in DOMAIN b THEN b[r] ELSE 0

\* the Login component unmounts: its pending handlers keep running, but their
\* state setters no longer reach a mounted form
OrphanOf(r) == IF r.src = "form" THEN [r EXCEPT !.src = "orphan"] ELSE r

Orphan(b) ==
    [x \in {OrphanOf(r) : r \in DOMAIN b} |->
        (IF x.src = "form" THEN 0 ELSE Count(b, x))
        + (IF x.src = "orphan" THEN Count(b, [x EXCEPT !.src = "form"]) ELSE 0)]

\* the page unloads: every pending handler of this tab is gone
DropClient(b) == [r \in {x \in DOMAIN b : x.src = "other"} |-> b[r]]

\* pending fetches of this tab
OwnPending(b) == BagCardinality(b) - BagCardinality(DropClient(b))

\* pending fetches the mounted Login form awaits
FormPending(b) ==
    BagCardinality([r \in {x \in DOMAIN b : x.src = "form"} |-> b[r]])

\* pending fetches of this tab that no mounted form awaits; their number is
\* what MaxInFlight bounds
BackgroundPending(b) == OwnPending(b) - FormPending(b)

(***************************************************************************)
(* State                                                                   *)
(***************************************************************************)
VARIABLES
    store,        \* authStore: user, token, isAuthenticated
    ls,           \* localStorage: access_token, refresh_token, user
    route,        \* the route being displayed
    form,         \* useState of the Login component
    net,          \* bag of pending fetches
    tickets,      \* backend: Temporary Authentication Tickets (missed: an answer mismatched)
    sessions,     \* backend: access tokens minted
    passedStep1,  \* history: accounts whose password check succeeded
    passedStep2,  \* history: accounts whose security answer check succeeded
    verifyLog,    \* history: per ticket, outcomes of the step-2 requests validated against it
    lastEv,       \* history: the last browser-side handler that ran to its end
    comparison,   \* localStorage: the 'comparison' key
    returned,     \* history: what the last lib/utils.ts comparison function returned
    timers,       \* the browser's pending setTimeout timers
    timeout,      \* per debounced function, the `timeout` of its closure: a timer id or NoTimer
    calls,        \* history: per debounced function, its last call and the run of calls it ends
    invoked,      \* history: per debounced function, the arguments func got since that run began
    home,         \* useState of the Home component (idle: ticks since an input last changed)
    manage,       \* useState of the AdminManageUsers component
    mutations,    \* pending useMutation calls of AdminManageUsers
    audit         \* history: ids verified in the current modify flow, ids a delete was issued for

vars == <<store, ls, route, form, net, tickets, sessions, passedStep1, passedStep2, verifyLog, lastEv,
          comparison, returned, timers, timeout, calls, invoked, home, manage, mutations, audit>>

\* the state of the pages outside login, session and routing
pageVars == <<comparison, returned, timers, timeout, calls, invoked, home, manage, mutations, audit>>

\* the functions Home makes with debounce(..., 500)
Debounced == {"debouncedSearchUpdate", "debouncedMinPriceUpdate", "debouncedMaxPriceUpdate"}

NoTimer == 0

NoCalls == [d \in Debounced |-> [since |-> 0, args |-> "", burst |-> 0]]

\* AdminManageUsers' useState initial values: no user picked, no dialog open
FreshManage ==
    [userToDelete |-> "none", deleteDialogOpen |-> FALSE,
     userToReset |-> "none", passwordDialogOpen |-> FALSE,
     securityVerifyDialogOpen |-> FALSE, choiceDialogOpen |-> FALSE,
     securityAnswerDialogOpen |-> FALSE]

\* Home's useState initial values
FreshHome ==
    [searchTerm |-> "", debouncedSearchTerm |-> "", selectedCategory |-> "",
     selectedCondition |-> "", minPrice |-> "", maxPrice |-> "",
     debouncedMinPrice |-> "", debouncedMaxPrice |-> "", idle |-> 0]

\* those pages as they are when nothing has been done on them
PagesIdle ==
    /\ comparison = Null
    /\ returned = "none"
    /\ timers = {}
    /\ timeout = [d \in Debounced |-> NoTimer]
    /\ calls = NoCalls
    /\ invoked = [d \in Debounced |-> <<>>]
    /\ home = FreshHome
    /\ manage = FreshManage
    /\ mutations = {}
    /\ audit = [verified |-> {}, deleted |-> {}]

FreshForm ==
    [step |-> 1, tempToken |-> Null, securityQuestion |-> "", isLoading |-> FALSE,
     error |-> "", inputError |-> "", passwordError |-> ""]

Init ==
    /\ store = EmptyStore
    /\ ls = EmptyStorage
    /\ route = "/login"
    /\ form = FreshForm
    /\ net = EmptyBag
    /\ tickets = <<>>
    /\ sessions = <<>>
    /\ passedStep1 = {}
    /\ passedStep2 = {}
    /\ verifyLog = <<>>
    /\ lastEv = "load"
    /\ PagesIdle

serverVars == <<tickets, sessions, passedStep1, passedStep2, verifyLog>>

Send(r) == net (+) SetToBag({r})

Settle(r) == net (-) SetToBag({r})

(***************************************************************************)
(* Backend, after the protocol description (sections 4.1, 4.2, 5, 7)       *)
(***************************************************************************)
\* the ticket a bearer token names, 0 when there is none
TicketOf(tok) ==
    IF \E i \in 1..Len(tickets) : TempToken(tickets[i].id, i) = tok
    THEN CHOOSE i \in 1..Len(tickets) : TempToken(tickets[i].id, i) = tok
    ELSE 0

\* validate(token): the session a bearer token names, 0 when invalid or expired
SessionOf(tok) ==
    IF \E n \in 1..Len(sessions) : AccessToken(sessions[n].id, n) = tok /\ ~sessions[n].expired
    THEN CHOOSE n \in 1..Len(sessions) : AccessToken(sessions[n].id, n) = tok
    ELSE 0

\* issue(identity, role, ttl) for a full session
SessionResp(a) ==
    Resp(200, "", AccessToken(a, Len(sessions) + 1), RefreshToken(a, Len(sessions) + 1),
         UserSummary(a), Null, "", FALSE)

\* step 1 for an admin: a ticket and the question, no session
TicketResp(a, rs) ==
    Resp(200, "", Null, Null, NoUser, TempToken(a, Len(tickets) + 1), SecurityQuestion[a], rs)

\* LoginReplies without the second factor: an admin's correct password is
\* answered with a full session
LoginRepliesOneStep(r) ==
    LET a == r.ident
    IN  IF a \notin Accounts \/ r.secret # Password[a]
        THEN {ErrorResp(401, "InvalidCredentials")}
        ELSE {SessionResp(a)}

\* POST /auth/login: the answers request r may get
LoginReplies(r) ==
    LET a == r.ident
    IN  IF a \notin Accounts \/ r.secret # Password[a]
        THEN {ErrorResp(401, "InvalidCredentials")}
        ELSE IF Role[a] = USER
        THEN {SessionResp(a)}
        ELSE {TicketResp(a, rs) : rs \in BOOLEAN}

\* POST /auth/login answers request r with resp
ServeLogin(r, resp) ==
    /\ r.ep = LOGIN
    /\ resp \in LoginReplies(r)
    /\ IF resp.status # 200
       THEN UNCHANGED <<tickets, sessions, passedStep1, verifyLog>>
       ELSE IF Truthy(resp.access_token)
       THEN /\ Len(sessions) < MaxSessions
            /\ sessions' = Append(sessions, [id |-> r.ident, expired |-> FALSE])
            /\ passedStep1' = passedStep1 \cup {r.ident}
            /\ UNCHANGED <<tickets, verifyLog>>
       ELSE /\ Len(tickets) < MaxTickets
            /\ tickets' = Append(tickets, [id |-> r.ident, st |-> "live", missed |-> FALSE])
            /\ verifyLog' = Append(verifyLog, <<>>)
            /\ passedStep1' = passedStep1 \cup {r.ident}
            /\ UNCHANGED sessions
    /\ UNCHANGED passedStep2

\* VerifyCheck comparing with the answer of any admin account
VerifyCheckAnyAdmin(r) ==
    LET i == TicketOf(BearerTok(r.auth))
    IN  IF i = 0 \/ tickets[i].st # "live" THEN "TicketExpiredOrInvalid"
        ELSE IF r.secret \notin {SecurityAnswer[b] : b \in {a \in Accounts : Role[a] = ADMIN}}
        THEN "InvalidSecurityAnswer"
        ELSE "ok"

\* the verdict of the first half of POST /auth/admin/verify-security: the
\* ticket is validated and the answer compared with the one stored for the
\* identity the ticket is bound to
VerifyCheck(r) ==
    LET i == TicketOf(BearerTok(r.auth))
    IN  IF i = 0 \/ tickets[i].st # "live" THEN "TicketExpiredOrInvalid"
        ELSE IF r.secret # SecurityAnswer[tickets[i].id] THEN "InvalidSecurityAnswer"
        ELSE "ok"

\* MarkConsumed without the compare: a validated request always wins
MarkConsumedBlind(i) == TRUE

\* MarkConsumed that only looks for an earlier consumer, not at the expiry
MarkConsumedIgnoresExpiry(i) == tickets[i].st # "consumed"

\* the atomic "mark consumed": true when the caller wins the ticket
MarkConsumed(i) == tickets[i].st = "live"

\* POST /auth/admin/verify-security: the answers request r may get now.  A
\* request that failed the check is refused; one that passed it consumes the
\* ticket and gets the session, or finds the ticket gone
VerifyReplies(r) ==
    IF r.stage = "sent"
    THEN IF VerifyCheck(r) = "ok" THEN {} ELSE {ErrorResp(401, VerifyCheck(r))}
    ELSE IF MarkConsumed(r.tk) THEN {SessionResp(tickets[r.tk].id)}
         ELSE {ErrorResp(401, "TicketExpiredOrInvalid")}

\* ServeVerify that burns the ticket on a mismatch
ServeVerifyBurnsOnMismatch(r, resp) ==
    /\ r.ep = VERIFY
    /\ resp \in VerifyReplies(r)
    /\ IF r.stage = "sent"
       THEN /\ tickets' = IF resp.detail = "InvalidSecurityAnswer"
                          THEN [tickets EXCEPT ![TicketOf(BearerTok(r.auth))].st = "consumed"]
                          ELSE tickets
            /\ UNCHANGED <<sessions, passedStep1, passedStep2, verifyLog>>
       ELSE IF resp.status = 200
       THEN /\ Len(sessions) < MaxSessions
            /\ tickets' = [tickets EXCEPT ![r.tk].st = "consumed"]
            /\ sessions' = Append(sessions, [id |-> tickets[r.tk].id, expired |-> FALSE])
            /\ passedStep2' = passedStep2 \cup {tickets[r.tk].id}
            /\ verifyLog' = [verifyLog EXCEPT ![r.tk] = Append(@, "session")]
            /\ UNCHANGED passedStep1
       ELSE /\ verifyLog' = [verifyLog EXCEPT ![r.tk] = Append(@, resp.detail)]
            /\ UNCHANGED <<tickets, sessions, passedStep1, passedStep2>>

\* POST /auth/admin/verify-security answers request r with resp
ServeVerify(r, resp) ==
    /\ r.ep = VERIFY
    /\ resp \in VerifyReplies(r)
    /\ IF r.stage = "sent"
       THEN \* refused by the check; a mismatch leaves the ticket as it is
            /\ tickets' = IF resp.detail = "InvalidSecurityAnswer"
                          THEN [tickets EXCEPT ![TicketOf(BearerTok(r.auth))].missed = TRUE]
                          ELSE tickets
            /\ UNCHANGED <<sessions, passedStep1, passedStep2, verifyLog>>
       ELSE IF resp.status = 200
       THEN /\ Len(sessions) < MaxSessions
            /\ tickets' = [tickets EXCEPT ![r.tk].st = "consumed"]
            /\ sessions' = Append(sessions, [id |-> tickets[r.tk].id, expired |-> FALSE])
            /\ passedStep2' = passedStep2 \cup {tickets[r.tk].id}
            /\ verifyLog' = [verifyLog EXCEPT ![r.tk] = Append(@, "session")]
            /\ UNCHANGED passedStep1
       ELSE /\ verifyLog' = [verifyLog EXCEPT ![r.tk] = Append(@, resp.detail)]
            /\ UNCHANGED <<tickets, sessions, passedStep1, passedStep2>>

\* POST /auth/logout: 204, or the call fails
LogoutReplies == {OkResp(204), ErrorResp(500, "An error occurred")}

ServeLogout(r, resp) ==
    /\ r.ep = LOGOUT
    /\ resp \in LogoutReplies
    /\ UNCHANGED serverVars

\* a resource endpoint: Unauthorized without a valid token, Forbidden when
\* the role does not suffice
ResourceReplies(r) ==
    LET n == SessionOf(BearerTok(r.auth))
    IN  {IF n = 0 THEN ErrorResp(401, "Unauthorized")
         ELSE IF r.ep = STATS /\ Role[sessions[n].id] # ADMIN THEN ErrorResp(403, "Forbidden")
         ELSE OkResp(200)}

ServeResource(r, resp) ==
    /\ r.ep \in {STATS, UPLOAD}
    /\ resp \in ResourceReplies(r)
    /\ UNCHANGED serverVars

\* every answer request r may get in the current state
Replies(r) ==
    IF r.ep = LOGIN THEN LoginReplies(r)
    ELSE IF r.ep = VERIFY THEN VerifyReplies(r)
    ELSE IF r.ep = LOGOUT THEN LogoutReplies
    ELSE ResourceReplies(r)

(***************************************************************************)
(* Login.tsx                                                               *)
(***************************************************************************)
\* a submit button that stays enabled while a request is awaited
SubmitAlwaysEnabled(f) == TRUE

\* <Button type="submit" disabled={isLoading}>: the form can be submitted
SubmitEnabled(f) == ~f.isLoading

\* handleStep1 up to `await login(...)`
handleStep1Submit(ident, pw) ==
    /\ route = "/login" /\ form.step = 1 /\ SubmitEnabled(form)
    /\ LET f1 == [form EXCEPT !.error = "",
                              !.inputError = IF ident = "" THEN "Email or username is required" ELSE "",
                              !.passwordError = IF pw = "" THEN "Password is required" ELSE ""]
       IN  IF ident = "" \/ pw = ""
           THEN /\ form' = f1
                /\ lastEv' = "step1:invalid"
                /\ UNCHANGED net
           ELSE /\ BackgroundPending(net) < MaxInFlight
                /\ form' = [f1 EXCEPT !.isLoading = TRUE]
                /\ net' = Send(Req(LOGIN, login(ls), ident, pw, "form", Null))
                /\ UNCHANGED lastEv
    /\ UNCHANGED <<store, ls, route>>
    /\ UNCHANGED serverVars
    /\ UNCHANGED pageVars

\* Step1Outcome testing the wrong field in the session branch
Step1OutcomeWrongField(resp) ==
    IF resp.status # 200 THEN "step1:error"
    ELSE IF resp.requires_security /\ Truthy(resp.temp_token) THEN "step1:step2"
    ELSE IF Truthy(resp.temp_token) /\ resp.user # NoUser THEN "step1:session"
    ELSE "step1:nothing"

\* the branch handleStep1 takes on the answer: the catch block, the
\* security-question branch, the session branch, or neither branch of the if
Step1Outcome(resp) ==
    IF resp.status # 200 THEN "step1:error"
    ELSE IF resp.requires_security /\ Truthy(resp.temp_token) THEN "step1:step2"
    ELSE IF Truthy(resp.access_token) /\ resp.user # NoUser THEN "step1:session"
    ELSE "step1:nothing"

\* Step1Session that also keeps the ticket in localStorage
Step1SessionKeepsTicket(c, resp) ==
    IF Step1Outcome(resp) = "step1:step2"
    THEN [c EXCEPT !.ls.access_token = resp.temp_token]
    ELSE IF Step1Outcome(resp) = "step1:session"
    THEN setAuth(c, resp.access_token, resp.user)
    ELSE c

\* Step1Session that drops the session when the login fails
Step1SessionClearsOnError(c, resp) ==
    IF Step1Outcome(resp) = "step1:session"
    THEN setAuth(c, resp.access_token, resp.user)
    ELSE IF Step1Outcome(resp) = "step1:error" THEN clearAuth(c)
    ELSE c

\* what handleStep1's try body does to the session (store and localStorage)
Step1Session(c, resp) ==
    IF Step1Outcome(resp) = "step1:session"
    THEN setAuth(c, resp.access_token, resp.user)
    ELSE c

\* Step1Form that forgets setTempToken
Step1FormNoToken(f, resp) ==
    IF resp.status # 200 THEN [f EXCEPT !.error = resp.detail, !.isLoading = FALSE]
    ELSE IF resp.requires_security /\ Truthy(resp.temp_token)
    THEN [f EXCEPT !.securityQuestion = IF resp.security_question # ""
                                        THEN resp.security_question ELSE DefaultQuestion,
                   !.step = 2,
                   !.isLoading = FALSE]
    ELSE [f EXCEPT !.isLoading = FALSE]

\* the form after handleStep1's setters ran on a mounted Login
Step1Form(f, resp) ==
    LET out == Step1Outcome(resp)
    IN  IF out = "step1:error" THEN [f EXCEPT !.error = resp.detail, !.isLoading = FALSE]
        ELSE IF out = "step1:step2"
        THEN [f EXCEPT !.tempToken = resp.temp_token,
                       !.securityQuestion = IF resp.security_question # ""
                                            THEN resp.security_question ELSE DefaultQuestion,
                       !.step = 2,
                       !.isLoading = FALSE]
        ELSE [f EXCEPT !.isLoading = FALSE]

\* handleStep1 from the moment login() settles: try body, catch, finally
handleStep1Response(r, resp) ==
    /\ r \in DOMAIN net
    /\ r.ep = LOGIN /\ r.src \in {"form", "orphan"}
    /\ ServeLogin(r, resp)
    /\ lastEv' = Step1Outcome(resp)
    /\ LET c1 == Step1Session([store |-> store, ls |-> ls], resp)
       IN  IF Step1Outcome(resp) = "step1:session"
           THEN \* navigate("/admin/dashboard") or navigate("/")
                LET d == Render(c1, IF resp.user.role = ADMIN THEN "/admin/dashboard" ELSE "/")
                IN  /\ store' = d.c.store
                    /\ ls' = d.c.ls
                    /\ route' = d.route
                    /\ form' = FreshForm
                    /\ net' = Orphan(Settle(r))
           ELSE /\ store' = c1.store
                /\ ls' = c1.ls
                /\ net' = Settle(r)
                /\ form' = IF r.src = "form" THEN Step1Form(form, resp) ELSE form
                /\ UNCHANGED route
    /\ UNCHANGED pageVars

\* handleStep2 up to `await adminLoginStep2(...)`
handleStep2Submit(ans) ==
    /\ route = "/login" /\ form.step = 2 /\ SubmitEnabled(form)
    /\ IF ans = ""
       THEN /\ form' = [form EXCEPT !.error = "Please enter the security answer"]
            /\ lastEv' = "step2:invalid"
            /\ UNCHANGED net
       ELSE /\ BackgroundPending(net) < MaxInFlight
            /\ form' = [form EXCEPT !.error = "", !.isLoading = TRUE]
            /\ net' = Send(Req(VERIFY, adminLoginStep2(ls, form.tempToken), "", ans,
                               "form", form.tempToken))
            /\ UNCHANGED lastEv
    /\ UNCHANGED <<store, ls, route>>
    /\ UNCHANGED serverVars
    /\ UNCHANGED pageVars

\* handleStep2 from the moment adminLoginStep2() settles
handleStep2Response(r, resp) ==
    /\ r \in DOMAIN net
    /\ r.ep = VERIFY /\ r.src \in {"form", "orphan"}
    /\ ServeVerify(r, resp)
    /\ IF resp.status = 200 /\ Truthy(resp.access_token) /\ resp.user # NoUser
       THEN \* setAuth, then window.location.href = "/admin/dashboard"
            LET c1 == setAuth([store |-> store, ls |-> ls], resp.access_token, resp.user)
                d  == ReloadAt(c1.ls, "/admin/dashboard")
            IN  /\ store' = d.c.store
                /\ ls' = d.c.ls
                /\ route' = d.route
                /\ form' = FreshForm
                /\ net' = DropClient(Settle(r))
                /\ lastEv' = "step2:session"
       ELSE /\ net' = Settle(r)
            /\ form' = IF r.src = "form"
                       THEN [form EXCEPT !.error = IF resp.status = 200
                                                   THEN "Invalid response from server"
                                                   ELSE resp.detail,
                                         !.isLoading = FALSE]
                       ELSE form
            /\ lastEv' = "step2:error"
            /\ UNCHANGED <<store, ls, route>>
    /\ UNCHANGED pageVars

handleBack ==
    /\ route = "/login" /\ form.step = 2 /\ ~form.isLoading
    /\ form' = [form EXCEPT !.step = 1, !.error = ""]
    /\ lastEv' = "back"
    /\ UNCHANGED <<store, ls, route, net>>
    /\ UNCHANGED serverVars
    /\ UNCHANGED pageVars

(***************************************************************************)
(* Navbar / AdminNavbar / Layout: handleLogout                             *)
(***************************************************************************)
\* handleLogout up to the fetch inside logout()
handleLogoutClick ==
    /\ HasLogout(route) /\ store.isAuthenticated
    /\ OwnPending(net) < MaxInFlight
    /\ net' = Send(Req(LOGOUT, logoutRequest(ls), "", "", "logout", Null))
    /\ UNCHANGED <<store, ls, route, form, lastEv>>
    /\ UNCHANGED serverVars
    /\ UNCHANGED pageVars

\* logout()'s finally block (api.ts)
logoutFinally(c) == [c EXCEPT !.ls = RemoveSessionKeys(c.ls)]

\* the rest of handleLogout: logout() settles (its catch swallows a failure),
\* its finally block runs, then authStore.clearAuth() and navigate("/login")
handleLogoutDone(r, resp) ==
    /\ r \in DOMAIN net
    /\ r.src = "logout"
    /\ ServeLogout(r, resp)
    /\ LET c1 == clearAuth(logoutFinally([store |-> store, ls |-> ls]))
       IN  /\ store' = c1.store
           /\ ls' = c1.ls
    /\ route' = "/login"
    /\ form' = FreshForm
    /\ net' = Orphan(Settle(r))
    /\ lastEv' = IF resp.status = 204 THEN "logout:ok" ELSE "logout:failed"
    /\ UNCHANGED pageVars

(***************************************************************************)
(* Resource calls: apiRequest (getAdminStats) and uploadFile               *)
(***************************************************************************)
ResourceCall(ep) ==
    /\ ep \in {STATS, UPLOAD}
    /\ OwnPending(net) < MaxInFlight
    /\ net' = Send(Req(ep, IF ep = UPLOAD THEN uploadFile(ls) ELSE apiRequest(ls, Null),
                       "", "", "api", Null))
    /\ UNCHANGED <<store, ls, route, form, lastEv>>
    /\ UNCHANGED serverVars
    /\ UNCHANGED pageVars

\* `if (!response.ok) throw new Error(...)`: the caller gets the error and
\* nothing else happens
ResourceResponse(r, resp) ==
    /\ r \in DOMAIN net
    /\ r.src = "api"
    /\ ServeResource(r, resp)
    /\ net' = Settle(r)
    /\ lastEv' = IF resp.status = 200 THEN "api:ok"
                 ELSE IF resp.status = 401 THEN "api:401" ELSE "api:403"
    /\ UNCHANGED <<store, ls, route, form>>
    /\ UNCHANGED pageVars

(***************************************************************************)
(* Navigation                                                              *)
(***************************************************************************)
\* client-side navigation (link, navigate(), history) to another route
NavigateTo(p) ==
    /\ p \in Routes /\ p # route
    /\ LET d == Render([store |-> store, ls |-> ls], p)
       IN  /\ store' = d.c.store
           /\ ls' = d.c.ls
           /\ route' = d.route
    /\ form' = FreshForm
    /\ net' = Orphan(net)
    /\ lastEv' = IF StaleRender(route, p) /\ Render([store |-> store, ls |-> ls], p).route # p
                 THEN "navigate:stale"
                 ELSE "navigate"
    /\ UNCHANGED serverVars
    /\ UNCHANGED pageVars

\* the user reloads the page
Reload ==
    /\ LET d == ReloadAt(ls, route)
       IN  /\ store' = d.c.store
           /\ ls' = d.c.ls
           /\ route' = d.route
    /\ form' = FreshForm
    /\ net' = DropClient(net)
    /\ lastEv' = "reload"
    /\ UNCHANGED serverVars
    /\ UNCHANGED pageVars

\* another tab of the application logs out: the shared localStorage loses
\* the session keys, this tab's memory is untouched
OtherTabLogout ==
    /\ ls # EmptyStorage
    /\ ls' = RemoveSessionKeys(ls)
    /\ UNCHANGED <<store, route, form, net, lastEv>>
    /\ UNCHANGED serverVars
    /\ UNCHANGED pageVars

(***************************************************************************)
(* Backend steps and the wall clock                                        *)
(***************************************************************************)
\* first half of verify-security succeeding: the request holds a validated
\* ticket and has not consumed it yet
ServerVerifyCheck(r) ==
    /\ r \in DOMAIN net
    /\ r.ep = VERIFY /\ r.stage = "sent"
    /\ VerifyCheck(r) = "ok"
    /\ net' = Send([r EXCEPT !.stage = "checked", !.tk = TicketOf(BearerTok(r.auth))])
              (-) SetToBag({r})
    /\ UNCHANGED serverVars
    /\ UNCHANGED <<store, ls, route, form, lastEv>>
    /\ UNCHANGED pageVars

\* a ticket reaches its expiry
ExpireTicket(i) ==
    /\ i \in 1..Len(tickets)
    /\ tickets[i].st = "live"
    /\ tickets' = [tickets EXCEPT ![i].st = "expired"]
    /\ UNCHANGED <<sessions, passedStep1, passedStep2, verifyLog, net>>
    /\ UNCHANGED <<store, ls, route, form, lastEv>>
    /\ UNCHANGED pageVars

\* an access token reaches its expiry
ExpireToken(n) ==
    /\ n \in 1..Len(sessions)
    /\ ~sessions[n].expired
    /\ sessions' = [sessions EXCEPT ![n].expired = TRUE]
    /\ UNCHANGED <<tickets, passedStep1, passedStep2, verifyLog, net>>
    /\ UNCHANGED <<store, ls, route, form, lastEv>>
    /\ UNCHANGED pageVars

(***************************************************************************)
(* A second client holding the same ticket and knowing the answer (the     *)
(* same admin on another device, or a replayed request)                    *)
(***************************************************************************)
SecondClientStep2(i) ==
    /\ i \in 1..Len(tickets)
    /\ DropClient(net) = EmptyBag
    /\ net' = Send(Req(VERIFY, Bearer(TempToken(tickets[i].id, i)), "",
                       SecurityAnswer[tickets[i].id], "other", TempToken(tickets[i].id, i)))
    /\ UNCHANGED serverVars
    /\ UNCHANGED <<store, ls, route, form, lastEv>>
    /\ UNCHANGED pageVars

SecondClientReceive(r, resp) ==
    /\ r \in DOMAIN net
    /\ r.src = "other"
    /\ ServeVerify(r, resp)
    /\ net' = Settle(r)
    /\ UNCHANGED <<store, ls, route, form, lastEv>>
    /\ UNCHANGED pageVars

(***************************************************************************)
(* Specification                                                           *)
(***************************************************************************)
Next ==
    \/ \E ident \in Identifiers, pw \in Passwords : handleStep1Submit(ident, pw)
    \/ \E r \in DOMAIN net : \E resp \in Replies(r) : handleStep1Response(r, resp)
    \/ \E ans \in Answers : handleStep2Submit(ans)
    \/ \E r \in DOMAIN net : \E resp \in Replies(r) : handleStep2Response(r, resp)
    \/ handleBack
    \/ handleLogoutClick
    \/ \E r \in DOMAIN net : \E resp \in Replies(r) : handleLogoutDone(r, resp)
    \/ \E ep \in {STATS, UPLOAD} : ResourceCall(ep)
    \/ \E r \in DOMAIN net : \E resp \in Replies(r) : ResourceResponse(r, resp)
    \/ \E p \in Routes : NavigateTo(p)
    \/ Reload
    \/ OtherTabLogout
    \/ \E r \in DOMAIN net : ServerVerifyCheck(r)
    \/ \E i \in 1..MaxTickets : ExpireTicket(i)
    \/ \E n \in 1..MaxSessions : ExpireToken(n)
    \/ \E i \in 1..MaxTickets : SecondClientStep2(i)
    \/ \E r \in DOMAIN net : \E resp \in Replies(r) : SecondClientReceive(r, resp)

Spec == Init /\ [][Next]_vars

(***************************************************************************)
(* authStore and checkAuthorization on their own: every call, in any order, *)
(* from any content of localStorage                                        *)
(***************************************************************************)
\* access tokens a caller hands to setAuth
StoreTokens == {AccessToken("alice", 1), AccessToken("admin1", 2), AccessToken("alice", 3)}

\* user summaries a caller hands to setAuth
StoreUsers == {UserSummary("alice"), UserSummary("admin1")}

\* what getItem('access_token') / getItem('user') may find: nothing, what
\* setAuth wrote, or text that is not JSON
StoredTokens == {Null, <<"undefined">>} \cup StoreTokens

StoredUsers == {Null, <<"undefined">>} \cup {JSONstringify(u) : u \in StoreUsers}

\* the module has just been loaded: authStore.initAuth() ran on the storage
StoreInit ==
    /\ \E t \in StoredTokens, u \in StoredUsers :
           LET c == initAuth([store |-> EmptyStore,
                              ls |-> [access_token |-> t, refresh_token |-> Null, user |-> u]])
           IN  store = c.store /\ ls = c.ls
    /\ route = "/"
    /\ form = FreshForm
    /\ net = EmptyBag
    /\ tickets = <<>>
    /\ sessions = <<>>
    /\ passedStep1 = {}
    /\ passedStep2 = {}
    /\ verifyLog = <<>>
    /\ lastEv = "load"
    /\ PagesIdle

\* the variables authStore does not touch
storeFrame == <<route, form, net, tickets, sessions, passedStep1, passedStep2, verifyLog, pageVars>>

SetAuthCall(token, user) ==
    /\ LET c == setAuth([store |-> store, ls |-> ls], token, user)
       IN  store' = c.store /\ ls' = c.ls
    /\ lastEv' = "setAuth"
    /\ UNCHANGED storeFrame

ClearAuthCall ==
    /\ LET c == clearAuth([store |-> store, ls |-> ls])
       IN  store' = c.store /\ ls' = c.ls
    /\ lastEv' = "clearAuth"
    /\ UNCHANGED storeFrame

InitAuthCall ==
    /\ LET c == initAuth([store |-> store, ls |-> ls])
       IN  store' = c.store /\ ls' = c.ls
    /\ lastEv' = "initAuth"
    /\ UNCHANGED storeFrame

\* clearAuth() immediately followed by initAuth()
ClearThenInit ==
    /\ LET c == initAuth(clearAuth([store |-> store, ls |-> ls]))
       IN  store' = c.store /\ ls' = c.ls
    /\ lastEv' = "clearAuth;initAuth"
    /\ UNCHANGED storeFrame

\* setAuth(token, user), then the page is loaded again: the module starts
\* from its initial fields and initAuth() reads the storage setAuth left
SetThenRestore(token, user) ==
    /\ LET c1 == setAuth([store |-> store, ls |-> ls], token, user)
           c2 == initAuth([store |-> EmptyStore, ls |-> c1.ls])
       IN  store' = c2.store /\ ls' = c2.ls
    /\ lastEv' = "setAuth;reload"
    /\ UNCHANGED storeFrame

\* one call of checkAuthorization; lastEv records what it returned
AuthorizeCall(requireAuth, requireRole, excludeRole) ==
    /\ LET r == checkAuthorization([store |-> store, ls |-> ls],
                                   requireAuth, requireRole, excludeRole)
       IN  /\ store' = r.c.store
           /\ ls' = r.c.ls
           /\ lastEv' = IF r.authorized THEN "authorized" ELSE "refused"
    /\ UNCHANGED storeFrame

\* another tab (or the user) removes the session keys
StorageCleared ==
    /\ ls # EmptyStorage
    /\ ls' = RemoveSessionKeys(ls)
    /\ UNCHANGED <<store, lastEv>>
    /\ UNCHANGED storeFrame

RoleProps == {NoRole, USER, ADMIN}

\* accounts Signup creates: signup({...formData, role: UserRole.USER})
SignupAccounts == {a \in Accounts : Role[a] = USER}

\* Signup.handleSignup: signup(), then the auto-login and an unguarded
\* setAuth(loginResponse.access_token, loginResponse.user); either call may
\* be refused, which lands in the catch block
handleSignup(a, refused) ==
    /\ IF refused
       THEN /\ lastEv' = "signup:error"
            /\ UNCHANGED <<store, ls, route>>
       ELSE \E resp \in LoginReplies(Req(LOGIN, login(ls), a, Password[a], "form", Null)) :
                LET c == setAuth([store |-> store, ls |-> ls], resp.access_token, resp.user)
                IN  /\ store' = c.store
                    /\ ls' = c.ls
                    /\ route' = "/"
                    /\ lastEv' = "signup"
    /\ UNCHANGED <<form, net, tickets, sessions, passedStep1, passedStep2, verifyLog, pageVars>>

StoreNext ==
    \/ \E t \in StoreTokens, u \in StoreUsers : SetAuthCall(t, u)
    \/ ClearAuthCall
    \/ InitAuthCall
    \/ ClearThenInit
    \/ \E t \in StoreTokens, u \in StoreUsers : SetThenRestore(t, u)
    \/ \E ra \in BOOLEAN, rr \in RoleProps, er \in RoleProps : AuthorizeCall(ra, rr, er)
    \/ StorageCleared
    \/ \E a \in SignupAccounts, refused \in BOOLEAN : handleSignup(a, refused)

StoreSpec == StoreInit /\ [][StoreNext]_vars

(***************************************************************************)
(* The comparison list of lib/utils.ts, kept in localStorage               *)
(***************************************************************************)
MaxItems == 4        \* item ids a person can pick from

MaxComparison == 3   \* `current.length >= 3`

Items == 1..MaxItems

\* the session, routing and backend variables, which these pages leave alone
authVars == <<store, ls, route, form, net, tickets, sessions, passedStep1, passedStep2, verifyLog>>

\* a page opened in a tab where nobody has logged in
AuthIdle ==
    /\ store = EmptyStore
    /\ ls = EmptyStorage
    /\ route = "/"
    /\ form = FreshForm
    /\ net = EmptyBag
    /\ tickets = <<>>
    /\ sessions = <<>>
    /\ passedStep1 = {}
    /\ passedStep2 = {}
    /\ verifyLog = <<>>

\* JSON.stringify(number[]): "[" id "," id ... "]", ids as decimal text
RECURSIVE JoinIds(_)
JoinIds(l) ==
    IF l = <<>> THEN <<>>
    ELSE IF Len(l) = 1 THEN <<Digit[l[1]]>>
    ELSE <<Digit[l[1]], ",">> \o JoinIds(Tail(l))

JSONstringifyIds(l) == <<"[">> \o JoinIds(l) \o <<"]">>

\* the number a decimal text denotes
NumberOf(d) == CHOOSE n \in 1..Len(Digit) : Digit[n] = d

\* JSON.parse of such a text: the ids between the brackets, commas skipped
JSONparseIds(s) ==
    LET inner == SubSeq(s, 2, Len(s) - 1)
    IN  [k \in 1..((Len(inner) + 1) \div 2) |-> NumberOf(inner[2 * k - 1])]

\* Array.prototype.includes
Includes(l, id) == \E k \in 1..Len(l) : l[k] = id

\* Array.prototype.filter(id => id !== itemId)
RECURSIVE Without(_, _)
Without(l, id) ==
    IF l = <<>> THEN <<>>
    ELSE IF Head(l) = id THEN Without(Tail(l), id)
    ELSE <<Head(l)>> \o Without(Tail(l), id)

getComparison(stored) == IF Truthy(stored) THEN JSONparseIds(stored) ELSE <<>>

\* a limit test that lets one item too many in
ComparisonFullOffByOne(current) == Len(current) > MaxComparison

\* `current.length >= 3`
ComparisonFull(current) == Len(current) >= MaxComparison

\* the functions below give the 'comparison' key after the call and the
\* value returned, as text ("void" where the function returns nothing)
addToComparison(stored, itemId) ==
    LET current == getComparison(stored)
    IN  IF Includes(current, itemId) THEN [stored |-> stored, ret |-> "false"]
        ELSE IF ComparisonFull(current) THEN [stored |-> stored, ret |-> "false"]
        ELSE [stored |-> JSONstringifyIds(Append(current, itemId)), ret |-> "true"]

removeFromComparison(stored, itemId) ==
    [stored |-> JSONstringifyIds(Without(getComparison(stored), itemId)), ret |-> "void"]

toggleComparison(stored, itemId) ==
    LET current == getComparison(stored)
    IN  IF Includes(current, itemId)
        THEN [stored |-> removeFromComparison(stored, itemId).stored, ret |-> "false"]
        ELSE IF ComparisonFull(current) THEN [stored |-> stored, ret |-> "false"]
        ELSE [stored |-> JSONstringifyIds(Append(current, itemId)), ret |-> "true"]

clearComparison(stored) == [stored |-> Null, ret |-> "void"]

\* one call of a comparison function from a page
ComparisonCall(name, result) ==
    /\ comparison' = result.stored
    /\ returned' = result.ret
    /\ lastEv' = name
    /\ UNCHANGED authVars
    /\ UNCHANGED <<timers, timeout, calls, invoked, home, manage, mutations, audit>>

AddToComparisonCall(itemId) ==
    ComparisonCall("addToComparison", addToComparison(comparison, itemId))

\* ListingCard.handleCompareClick
ToggleComparisonCall(itemId) ==
    ComparisonCall("toggleComparison", toggleComparison(comparison, itemId))

RemoveFromComparisonCall(itemId) ==
    ComparisonCall("removeFromComparison", removeFromComparison(comparison, itemId))

ClearComparisonCall ==
    ComparisonCall("clearComparison", clearComparison(comparison))

ComparisonInit ==
    /\ AuthIdle
    /\ lastEv = "load"
    /\ PagesIdle

ComparisonNext ==
    \/ \E itemId \in Items : AddToComparisonCall(itemId)
    \/ \E itemId \in Items : ToggleComparisonCall(itemId)
    \/ \E itemId \in Items : RemoveFromComparisonCall(itemId)
    \/ ClearComparisonCall

ComparisonSpec == ComparisonInit /\ [][ComparisonNext]_vars

(***************************************************************************)
(* debounce of lib/utils.ts.  Time advances in ticks; a timer runs its      *)
(* callback when its delay has elapsed, before time advances further.      *)
(***************************************************************************)
Wait == 2       \* the `wait` argument, in ticks

MaxBurst == 3   \* calls in one run of calls less than `wait` apart

\* what is typed into an input, or handed to a debounced function
Typed == {"", "a", "b"}

\* setTimeout returns an id no pending timer has
NewTimerId(tm) ==
    CHOOSE n \in 1..(Cardinality(tm) + 1) :
        /\ \A t \in tm : t.id # n
        /\ \A k \in 1..(n - 1) : \E t \in tm : t.id = k

clearTimeout(tm, id) == {t \in tm : t.id # id}

\* executedFunction without the clearTimeout
executedFunctionNoClear(c, d, args) ==
    LET id == NewTimerId(c.timers)
    IN  [timers  |-> c.timers \cup {[id |-> id, fn |-> d, left |-> Wait, args |-> args]},
         timeout |-> [c.timeout EXCEPT ![d] = id]]

\* one call of the function debounce returned, on c = [timers, timeout]
executedFunction(c, d, args) ==
    LET cleared == IF c.timeout[d] # NoTimer THEN clearTimeout(c.timers, c.timeout[d])
                   ELSE c.timers
        id == NewTimerId(cleared)
    IN  [timers  |-> cleared \cup {[id |-> id, fn |-> d, left |-> Wait, args |-> args]},
         timeout |-> [c.timeout EXCEPT ![d] = id]]

\* `later` of timer t up to its call of func: timeout = null
later(c, t) ==
    [timers |-> c.timers \ {t}, timeout |-> [c.timeout EXCEPT ![t.fn] = NoTimer]]

\* a timer whose delay has elapsed
Due(t) == t \in timers /\ t.left = 0

\* one tick passes for the pending timers
TimersTick(tm) == {[t EXCEPT !.left = @ - 1] : t \in tm}

\* a call of a debounced function; a call `wait` or more after the previous
\* one begins a new run of calls
DebouncedCall(d, args) ==
    /\ LET c == executedFunction([timers |-> timers, timeout |-> timeout], d, args)
       IN  timers' = c.timers /\ timeout' = c.timeout
    /\ IF calls[d].burst = 0 \/ calls[d].since >= Wait
       THEN /\ calls' = [calls EXCEPT ![d] = [since |-> 0, args |-> args, burst |-> 1]]
            /\ invoked' = [invoked EXCEPT ![d] = <<>>]
       ELSE /\ calls[d].burst < MaxBurst
            /\ calls' = [calls EXCEPT ![d] = [since |-> 0, args |-> args, burst |-> @.burst + 1]]
            /\ UNCHANGED invoked
    /\ lastEv' = "call"
    /\ UNCHANGED authVars
    /\ UNCHANGED <<comparison, returned, home, manage, mutations, audit>>

\* the callback of a due timer runs: timeout = null; func(...args)
DebouncedLater(t) ==
    /\ Due(t)
    /\ LET c == later([timers |-> timers, timeout |-> timeout], t)
       IN  timers' = c.timers /\ timeout' = c.timeout
    /\ invoked' = [invoked EXCEPT ![t.fn] = Append(@, t.args)]
    /\ lastEv' = "later"
    /\ UNCHANGED authVars
    /\ UNCHANGED <<comparison, returned, calls, home, manage, mutations, audit>>

DebounceTick ==
    /\ \A t \in timers : ~Due(t)
    /\ timers' = TimersTick(timers)
    /\ calls' = [d \in Debounced |->
                    [calls[d] EXCEPT !.since = IF @ > Wait THEN @ ELSE @ + 1]]
    /\ lastEv' = "tick"
    /\ UNCHANGED authVars
    /\ UNCHANGED <<comparison, returned, timeout, invoked, home, manage, mutations, audit>>

DebounceInit ==
    /\ AuthIdle
    /\ lastEv = "load"
    /\ PagesIdle

DebounceNext ==
    \/ \E d \in Debounced, args \in Typed : DebouncedCall(d, args)
    \/ \E t \in timers : DebouncedLater(t)
    \/ DebounceTick

DebounceSpec == DebounceInit /\ [][DebounceNext]_vars

(***************************************************************************)
(* Home.tsx: the search and price inputs and their debounced copies.  An   *)
(* effect runs in the same task as the event whose state change caused it. *)
(***************************************************************************)
\* what is typed into the search box and the price inputs
HomeTyped == {"", "a"}

\* the input each debounced function is called with, and the state it sets
InputOf ==
    [d \in Debounced |-> IF d = "debouncedSearchUpdate" THEN "searchTerm"
                         ELSE IF d = "debouncedMinPriceUpdate" THEN "minPrice"
                         ELSE "maxPrice"]

DebouncedOf ==
    [d \in Debounced |-> IF d = "debouncedSearchUpdate" THEN "debouncedSearchTerm"
                         ELSE IF d = "debouncedMinPriceUpdate" THEN "debouncedMinPrice"
                         ELSE "debouncedMaxPrice"]

\* an effect that never runs again after the mount
homeEffectMountOnly(c, d, old, new) == c

\* useEffect(() => { debouncedXUpdate(x) }, [x, debouncedXUpdate]) after a
\* render in which x went from old to new
homeEffect(c, d, old, new) == IF old # new THEN executedFunction(c, d, new) ELSE c

\* the three effects, in the order the component declares them
homeEffects(c, h, h1) ==
    LET c1 == homeEffect(c, "debouncedSearchUpdate", h.searchTerm, h1.searchTerm)
        c2 == homeEffect(c1, "debouncedMinPriceUpdate", h.minPrice, h1.minPrice)
    IN  homeEffect(c2, "debouncedMaxPriceUpdate", h.maxPrice, h1.maxPrice)

\* the handler set the state to h1; the render and its effects follow
HomeRender(h1, name) ==
    /\ home' = [h1 EXCEPT !.idle = IF \E d \in Debounced : h1[InputOf[d]] # home[InputOf[d]]
                                   THEN 0 ELSE home.idle]
    /\ LET c == homeEffects([timers |-> timers, timeout |-> timeout], home, h1)
       IN  timers' = c.timers /\ timeout' = c.timeout
    /\ lastEv' = name
    /\ UNCHANGED authVars
    /\ UNCHANGED <<comparison, returned, calls, invoked, manage, mutations, audit>>

\* onChange of the search box or of a price input
handleInputChange(d, value) ==
    /\ value # home[InputOf[d]]
    /\ HomeRender([home EXCEPT ![InputOf[d]] = value], "change")

\* a category or a condition is picked
handleSelect(field, value) ==
    /\ value # home[field]
    /\ HomeRender([home EXCEPT ![field] = value], "select")

\* Clear All
handleClearFilters ==
    HomeRender([home EXCEPT !.searchTerm = "", !.debouncedSearchTerm = "",
                            !.selectedCategory = "", !.selectedCondition = "",
                            !.minPrice = "", !.maxPrice = "",
                            !.debouncedMinPrice = "", !.debouncedMaxPrice = ""],
               "clearFilters")

\* a due timer of Home runs: timeout = null; setDebouncedX(value)
HomeLater(t) ==
    /\ Due(t)
    /\ LET c == later([timers |-> timers, timeout |-> timeout], t)
       IN  timers' = c.timers /\ timeout' = c.timeout
    /\ home' = [home EXCEPT ![DebouncedOf[t.fn]] = t.args]
    /\ lastEv' = "later"
    /\ UNCHANGED authVars
    /\ UNCHANGED <<comparison, returned, calls, invoked, manage, mutations, audit>>

HomeTick ==
    /\ \A t \in timers : ~Due(t)
    /\ timers' = TimersTick(timers)
    /\ home' = [home EXCEPT !.idle = IF @ > Wait THEN @ ELSE @ + 1]
    /\ lastEv' = "tick"
    /\ UNCHANGED authVars
    /\ UNCHANGED <<comparison, returned, timeout, calls, invoked, manage, mutations, audit>>

\* Home has mounted: the three effects ran once with the initial values
HomeInit ==
    /\ AuthIdle
    /\ lastEv = "load"
    /\ comparison = Null
    /\ returned = "none"
    /\ calls = NoCalls
    /\ invoked = [d \in Debounced |-> <<>>]
    /\ home = FreshHome
    /\ manage = FreshManage
    /\ mutations = {}
    /\ audit = [verified |-> {}, deleted |-> {}]
    /\ LET c0 == [timers |-> {}, timeout |-> [d \in Debounced |-> NoTimer]]
           c1 == executedFunction(c0, "debouncedSearchUpdate", FreshHome.searchTerm)
           c2 == executedFunction(c1, "debouncedMinPriceUpdate", FreshHome.minPrice)
           c3 == executedFunction(c2, "debouncedMaxPriceUpdate", FreshHome.maxPrice)
       IN  timers = c3.timers /\ timeout = c3.timeout

HomeNext ==
    \/ \E d \in Debounced, value \in HomeTyped : handleInputChange(d, value)
    \/ \E field \in {"selectedCategory", "selectedCondition"}, value \in {"", "x"} :
           handleSelect(field, value)
    \/ handleClearFilters
    \/ \E t \in timers : HomeLater(t)
    \/ HomeTick

HomeSpec == HomeInit /\ [][HomeNext]_vars

(***************************************************************************)
(* AdminManageUsers.tsx: delete and modify dialogs of the Manage Users     *)
(* page.  The rows are the accounts; user.id is the account name.  The     *)
(* /api/admin endpoints are not part of the sources: a call may fail, and  *)
(* verify-security answers with the { message, verified } body its type    *)
(* declares.                                                               *)
(***************************************************************************)
Dialogs == {"deleteDialogOpen", "passwordDialogOpen", "securityVerifyDialogOpen",
            "choiceDialogOpen", "securityAnswerDialogOpen"}

\* the dialogs are modal: the table can be clicked when none is open
NoDialogOpen(m) == \A dlg \in Dialogs : ~m[dlg]

\* a Delete button that is never disabled
DeleteNeverDisabled(c, id) == FALSE

\* disabled={user.id === authStore.user?.user_id}
DeleteDisabled(c, id) == id = c.store.user.user_id

\* the test of handleModifyPassword: the admin modifies its own account
OwnAdminRow(c, id) == id = c.store.user.user_id /\ Role[id] = ADMIN

Call(fn, userId, answer) == [fn |-> fn, userId |-> userId, answer |-> answer]

Pending(fn) == \E call \in mutations : call.fn = fn

\* what the server may answer to a call: a failure (the promise rejects) or
\* a 2xx body; for verify-security the body carries `verified`
MutationReplies(call) ==
    {[ok |-> FALSE, verified |-> FALSE]}
    \cup (IF call.fn = "verifyAdminSecurityAnswer"
          THEN {[ok |-> TRUE, verified |-> call.answer = SecurityAnswer[call.userId]]}
          ELSE {[ok |-> TRUE, verified |-> FALSE]})

\* the page after a handler: its state, the pending calls, the history
ManageStep(m, calls1, audit1, name) ==
    /\ manage' = m
    /\ mutations' = calls1
    /\ audit' = audit1
    /\ lastEv' = name
    /\ UNCHANGED authVars
    /\ UNCHANGED <<comparison, returned, timers, timeout, calls, invoked, home>>

handleDelete(id) ==
    /\ NoDialogOpen(manage)
    /\ ~DeleteDisabled([store |-> store, ls |-> ls], id)
    /\ ManageStep([manage EXCEPT !.userToDelete = id, !.deleteDialogOpen = TRUE],
                  mutations, audit, "handleDelete")

\* the dialog's Delete button: the AlertDialogAction closes the dialog
confirmDelete ==
    /\ manage.deleteDialogOpen
    /\ IF manage.userToDelete # "none"
       THEN ManageStep([manage EXCEPT !.deleteDialogOpen = FALSE],
                       mutations \cup {Call("deleteUser", manage.userToDelete, "")},
                       [audit EXCEPT !.deleted = @ \cup {manage.userToDelete}],
                       "confirmDelete")
       ELSE ManageStep([manage EXCEPT !.deleteDialogOpen = FALSE], mutations, audit,
                       "confirmDelete")

handleModifyPassword(id) ==
    /\ NoDialogOpen(manage)
    /\ ManageStep(IF OwnAdminRow([store |-> store, ls |-> ls], id)
                  THEN [manage EXCEPT !.userToReset = id, !.securityVerifyDialogOpen = TRUE]
                  ELSE [manage EXCEPT !.userToReset = id, !.passwordDialogOpen = TRUE],
                  mutations, [audit EXCEPT !.verified = {}], "handleModifyPassword")

\* the Verify button, disabled while the mutation is pending
handleSecurityVerify(answer) ==
    /\ manage.securityVerifyDialogOpen
    /\ ~Pending("verifyAdminSecurityAnswer")
    /\ IF manage.userToReset = "none" \/ answer = ""
       THEN ManageStep(manage, mutations, audit, "verify:invalid")
       ELSE ManageStep(manage,
                       mutations \cup {Call("verifyAdminSecurityAnswer", manage.userToReset, answer)},
                       audit, "handleSecurityVerify")

handleChoiceSelect(choice) ==
    /\ manage.choiceDialogOpen
    /\ ManageStep(IF choice = "password"
                  THEN [manage EXCEPT !.choiceDialogOpen = FALSE, !.passwordDialogOpen = TRUE]
                  ELSE [manage EXCEPT !.choiceDialogOpen = FALSE,
                                      !.securityAnswerDialogOpen = TRUE],
                  mutations, audit, "handleChoiceSelect")

\* the Update button of the password dialog (valid: the two fields pass the
\* checks) and of the security answer dialog
handleReset(dlg, fn, valid) ==
    /\ manage[dlg]
    /\ ~Pending(fn)
    /\ IF manage.userToReset = "none" \/ ~valid
       THEN ManageStep(manage, mutations, audit, "reset:invalid")
       ELSE ManageStep(manage, mutations \cup {Call(fn, manage.userToReset, "")}, audit, fn)

handlePasswordReset(valid) == handleReset("passwordDialogOpen", "resetUserPassword", valid)

handleSecurityAnswerReset(valid) ==
    handleReset("securityAnswerDialogOpen", "updateAdminSecurityAnswer", valid)

\* a dialog is dismissed (onOpenChange(false)), or left by its Cancel button,
\* which for the four modify dialogs also does setUserToReset(null)
closeDialog(dlg, cancel) ==
    /\ manage[dlg]
    /\ ManageStep(IF cancel /\ dlg # "deleteDialogOpen"
                  THEN [manage EXCEPT ![dlg] = FALSE, !.userToReset = "none"]
                  ELSE [manage EXCEPT ![dlg] = FALSE],
                  mutations, audit, "closeDialog")

\* onSuccess / onError of the four mutations
mutationSettled(call, reply) ==
    /\ call \in mutations
    /\ reply \in MutationReplies(call)
    /\ LET rest == mutations \ {call}
       IN  IF ~reply.ok THEN ManageStep(manage, rest, audit, "onError")
           ELSE IF call.fn = "deleteUser"
           THEN ManageStep([manage EXCEPT !.deleteDialogOpen = FALSE, !.userToDelete = "none"],
                           rest, audit, "onSuccess")
           ELSE IF call.fn = "verifyAdminSecurityAnswer"
           THEN ManageStep([manage EXCEPT !.securityVerifyDialogOpen = FALSE,
                                          !.choiceDialogOpen = TRUE],
                           rest,
                           IF reply.verified
                           THEN [audit EXCEPT !.verified = @ \cup {call.userId}]
                           ELSE audit,
                           "onSuccess")
           ELSE IF call.fn = "resetUserPassword"
           THEN ManageStep([manage EXCEPT !.passwordDialogOpen = FALSE,
                                          !.choiceDialogOpen = FALSE,
                                          !.userToReset = "none"],
                           rest, audit, "onSuccess")
           ELSE ManageStep([manage EXCEPT !.securityAnswerDialogOpen = FALSE,
                                          !.choiceDialogOpen = FALSE,
                                          !.userToReset = "none"],
                           rest, audit, "onSuccess")

\* an admin is logged in and has opened /admin/users
ManageInit ==
    /\ \E a \in {x \in Accounts : Role[x] = ADMIN} :
           LET c == setAuth([store |-> EmptyStore, ls |-> EmptyStorage],
                            AccessToken(a, 1), UserSummary(a))
           IN  store = c.store /\ ls = c.ls
    /\ route = "/admin/users"
    /\ form = FreshForm
    /\ net = EmptyBag
    /\ tickets = <<>>
    /\ sessions = <<>>
    /\ passedStep1 = {}
    /\ passedStep2 = {}
    /\ verifyLog = <<>>
    /\ lastEv = "load"
    /\ PagesIdle

ManageNext ==
    \/ \E id \in Accounts : handleDelete(id)
    \/ confirmDelete
    \/ \E id \in Accounts : handleModifyPassword(id)
    \/ \E answer \in Answers : handleSecurityVerify(answer)
    \/ \E choice \in {"password", "security"} : handleChoiceSelect(choice)
    \/ \E valid \in BOOLEAN : handlePasswordReset(valid)
    \/ \E valid \in BOOLEAN : handleSecurityAnswerReset(valid)
    \/ \E dlg \in Dialogs, cancel \in BOOLEAN : closeDialog(dlg, cancel)
    \/ \E call \in mutations : \E reply \in MutationReplies(call) : mutationSettled(call, reply)

ManageUsersSpec == ManageInit /\ [][ManageNext]_vars

(***************************************************************************)
(* Properties                                                              *)
(***************************************************************************)
\* C1: whenever the client holds an established admin session, the password
\* check (step 1) and the security-answer check (step 2) both succeeded for
\* that account before; step 1 alone never establishes an admin session.
C1_AdminSessionNeedsBothSteps ==
    (store.isAuthenticated /\ store.user.role = ADMIN)
        => /\ store.user.user_id \in passedStep1
           /\ store.user.user_id \in passedStep2

\* C1 witness: an admin session established by handleStep2
C1_Witness ==
    /\ lastEv = "step2:session"
    /\ store.isAuthenticated /\ store.user.role = ADMIN
    /\ route = "/admin/dashboard"

Sessions(log) == Cardinality({j \in 1..Len(log) : log[j] = "session"})

\* C2: of the step-2 requests validated against the same ticket with the
\* correct answer, at most one obtains a session and every other one gets
\* TicketExpiredOrInvalid; unless the ticket expired first, exactly one wins.
C2_TicketConsumedOnce ==
    \A i \in 1..Len(verifyLog) :
        /\ Sessions(verifyLog[i]) <= 1
        /\ \A j \in 1..Len(verifyLog[i]) :
               verifyLog[i][j] \in {"session", "TicketExpiredOrInvalid"}
        /\ (verifyLog[i] # <<>> /\ tickets[i].st # "expired") => Sessions(verifyLog[i]) = 1

\* C2 witness: two validated submissions of one ticket, one won and one lost
C2_Witness ==
    \E i \in 1..Len(verifyLog) :
        /\ Len(verifyLog[i]) = 2
        /\ Sessions(verifyLog[i]) = 1
        /\ tickets[i].st = "consumed"

\* C3: every step-2 request this tab sends to verify-security carries the
\* ticket as its bearer credential: Authorization = 'Bearer ' + tempToken,
\* whatever localStorage holds.
C3_Step2CarriesTicket ==
    \A r \in DOMAIN net :
        (r.ep = VERIFY /\ r.src \in {"form", "orphan"}) => r.auth = Bearer(r.arg)

IssuedTickets == {TempToken(tickets[i].id, i) : i \in 1..Len(tickets)}

\* C4: a ticket is never written to localStorage nor to authStore.token, and
\* no request of this tab other than the verify-security call carries it as
\* bearer.
C4_TicketNeverGeneralCredential ==
    /\ ls.access_token \notin IssuedTickets
    /\ ls.refresh_token \notin IssuedTickets
    /\ ls.user \notin IssuedTickets
    /\ store.token \notin IssuedTickets
    /\ \A r \in DOMAIN net :
           (r.src # "other" /\ BearerTok(r.auth) \in IssuedTickets) => r.ep = VERIFY

\* C4 witness: the form holds a ticket and its step-2 request carries it
C4_Witness ==
    /\ form.step = 2 /\ form.tempToken \in IssuedTickets
    /\ \E r \in DOMAIN net :
           r.ep = VERIFY /\ r.src = "form" /\ BearerTok(r.auth) = form.tempToken

C6_UserLoginIsOneStep ==
    [][\A r \in DOMAIN net : \A resp \in Replies(r) :
          (/\ handleStep1Response(r, resp)
           /\ r.ident \in Accounts
           /\ Role[r.ident] = USER
           /\ r.secret = Password[r.ident])
          => /\ store'.isAuthenticated
             /\ store'.token = resp.access_token
             /\ store'.user = UserSummary(r.ident)
             /\ route' = "/"
             /\ form'.step = 1
             /\ form'.tempToken = Null
             /\ form'.securityQuestion = ""]_vars

\* C6 witness: a user session established by handleStep1
C6_Witness ==
    /\ lastEv = "step1:session"
    /\ store.isAuthenticated /\ store.user.role = USER
    /\ route = "/"

\* a structurally valid, non-expired access token is in localStorage
ValidPersistedToken == SessionOf(ls.access_token) # 0

\* C7: the authenticated flag, as re-derived at a navigation to a page that
\* runs initAuth, is true if and only if a structurally valid, non-expired
\* token is in persisted storage.
C7_AuthenticatedIffValidToken ==
    [][(\E p \in Routes \ {"/login"} : NavigateTo(p))
          => (store'.isAuthenticated <=> ValidPersistedToken')]_vars

\* C8: once the persisted session is gone (access_token and user removed by
\* a logout here or in another tab), the next navigation to a ProtectedRoute
\* is refused and ends on /login.
C8_ProtectedRouteUsesFreshSession ==
    [][\A p \in ProtectedRoutes :
          (NavigateTo(p) /\ ls.access_token = Null /\ ls.user = Null)
          => route' = "/login"]_vars

\* C9: a 401 or 403 answer to a resource call that carried a bearer token
\* clears authStore and the persisted session and leads to /login.
C9_UnauthorizedClearsSession ==
    [][\A r \in DOMAIN net : \A resp \in Replies(r) :
          (/\ ResourceResponse(r, resp)
           /\ r.auth # Null
           /\ resp.status \in {401, 403})
          => /\ store' = EmptyStore
             /\ ls' = EmptyStorage
             /\ route' = "/login"]_vars

\* C10: localStorage holds 'access_token' if and only if it holds 'user'.
C10_TokenAndUserTogether ==
    (ls.access_token # Null) <=> (ls.user # Null)

\* C10 witness: a logout whose server call failed has removed both
C10_Witness ==
    /\ lastEv = "logout:failed"
    /\ sessions # <<>>
    /\ ls.access_token = Null /\ ls.user = Null

\* C11: clearAuth() immediately followed by initAuth() leaves authStore
\* unauthenticated with no user and no token, whatever the session was.
C11_ClearThenInitUnauthenticated ==
    [][ClearThenInit => store' = EmptyStore]_vars

\* C11 witness: the pair of calls has run and left nothing behind
C11_Witness ==
    /\ lastEv = "clearAuth;initAuth"
    /\ ~store.isAuthenticated /\ store.user = NoUser /\ store.token = Null
    /\ ls = EmptyStorage

\* C12: setAuth(token, user), then initAuth() from the module's initial
\* fields with localStorage kept, gives back the same token, an equal user
\* summary and isAuthenticated = true.
C12_SetAuthRoundTrip ==
    [][\A t \in StoreTokens, u \in StoreUsers :
          SetThenRestore(t, u)
          => /\ store'.token = t
             /\ store'.user = u
             /\ store'.isAuthenticated]_vars

\* C12 witness: an admin's session restored after the reload
C12_Witness ==
    /\ lastEv = "setAuth;reload"
    /\ store.isAuthenticated
    /\ store.user = UserSummary("admin1")
    /\ store.token = AccessToken("admin1", 2)

\* the session user's role, none when there is no user
SessionRole == store.user.role

\* C17, the function: checkAuthorization returns true exactly when
\* (requireAuth is false or the session is authenticated) and (requireRole is
\* unset or it is the session user's role) and (excludeRole is unset or it is
\* not the session user's role).
C17_CheckAuthorizationTable ==
    [][\A ra \in BOOLEAN, rr \in RoleProps, er \in RoleProps :
          AuthorizeCall(ra, rr, er)
          => (lastEv' = "authorized"
              <=> /\ (~ra \/ store'.isAuthenticated)
                  /\ (rr = NoRole \/ SessionRole' = rr)
                  /\ (er = NoRole \/ SessionRole' # er))]_vars

\* C17, the routes: the children of /admin/dashboard are rendered only for an
\* authenticated admin session, those of /my-items only for an authenticated
\* session that is not an admin's.
C17_RoutesRenderOnlyForRole ==
    [][\A p \in ProtectedRoutes :
          (NavigateTo(p) /\ (route' = p \/ lastEv' = "navigate:stale"))
          => /\ store'.isAuthenticated
             /\ (RequireRole(p) # NoRole => SessionRole' = RequireRole(p))
             /\ (ExcludeRole(p) # NoRole => SessionRole' # ExcludeRole(p))]_vars

\* the ticket a verify-security request stands for: the one it was validated
\* against, or else the one its bearer names (0 when none)
TicketNamed(r) == IF r.stage = "checked" THEN r.tk ELSE TicketOf(BearerTok(r.auth))

\* C13: a step-2 submission refused for a wrong answer establishes no
\* session, leaves the form in step 2 with the same temp token, and leaves
\* the ticket live, so that the correct answer with that ticket still passes.
C13_WrongAnswerKeepsTicket ==
    [][\A r \in DOMAIN net : \A resp \in Replies(r) :
          (/\ handleStep2Response(r, resp)
           /\ r.src = "form"
           /\ resp.detail = "InvalidSecurityAnswer")
          => /\ store' = store /\ ls' = ls /\ sessions' = sessions
             /\ form'.step = 2
             /\ form'.tempToken = form.tempToken
             /\ tickets'[TicketNamed(r)].st = "live"
             /\ VerifyCheck([r EXCEPT !.secret = SecurityAnswer[tickets[TicketNamed(r)].id]])'
                    = "ok"]_vars

\* C13 witness: after a mismatch, the same ticket completed step 2 in this tab
C13_Witness ==
    /\ lastEv = "step2:session"
    /\ store.isAuthenticated /\ store.user.role = ADMIN
    /\ \E i \in 1..Len(tickets) : tickets[i].missed /\ tickets[i].st = "consumed"

\* C14: after a step-2 attempt is refused with TicketExpiredOrInvalid for an
\* expired or consumed ticket, the form is back in step 1 and holds no ticket.
C14_DeadTicketRestartsAtStart ==
    [][\A r \in DOMAIN net : \A resp \in Replies(r) :
          (/\ handleStep2Response(r, resp)
           /\ r.src = "form"
           /\ resp.detail = "TicketExpiredOrInvalid"
           /\ TicketNamed(r) # 0
           /\ tickets[TicketNamed(r)].st \in {"expired", "consumed"})
          => /\ form'.step = 1
             /\ form'.tempToken = Null]_vars

\* C15: a verify-security request whose ticket has expired is answered with
\* TicketExpiredOrInvalid and mints no session, whatever the answer.
C15_ExpiredTicketRejected ==
    [][\A r \in DOMAIN net : \A resp \in Replies(r) :
          (/\ handleStep2Response(r, resp) \/ SecondClientReceive(r, resp)
           /\ TicketNamed(r) # 0
           /\ tickets[TicketNamed(r)].st = "expired")
          => /\ resp.detail = "TicketExpiredOrInvalid"
             /\ sessions' = sessions
             /\ tickets'[TicketNamed(r)].st = "expired"
             /\ (r.src # "other" => store' = store /\ ls' = ls)]_vars

\* C15 witness: the form was refused with an expired ticket; no session was
\* ever minted, so the ticket was not consumed and the request carried it
C15_Witness ==
    /\ lastEv = "step2:error"
    /\ form.error = "TicketExpiredOrInvalid"
    /\ sessions = <<>>
    /\ \E i \in 1..Len(tickets) :
           tickets[i].st = "expired" /\ form.tempToken = TempToken(tickets[i].id, i)

\* C16: a verify-security request with the ticket of admin A and the stored
\* answer of another admin B is refused: no session, the ticket unchanged.
C16_TicketBoundToIdentity ==
    [][\A r \in DOMAIN net : \A resp \in Replies(r) :
          (/\ handleStep2Response(r, resp) \/ SecondClientReceive(r, resp)
           /\ TicketNamed(r) # 0
           /\ \E b \in Accounts : /\ Role[b] = ADMIN
                                  /\ b # tickets[TicketNamed(r)].id
                                  /\ r.secret = SecurityAnswer[b])
          => /\ resp.status # 200
             /\ sessions' = sessions
             /\ passedStep2' = passedStep2
             /\ tickets'[TicketNamed(r)].st = tickets[TicketNamed(r)].st
             /\ (r.src # "other" => store' = store /\ ls' = ls)]_vars

\* C16 witness: admin1's ticket was presented with admin2's answer and refused
C16_Witness ==
    /\ lastEv = "step2:error"
    /\ form.error = "InvalidSecurityAnswer"
    /\ \E i \in 1..Len(tickets) :
           tickets[i].id = "admin1" /\ tickets[i].missed /\ tickets[i].st = "live"
    /\ ~store.isAuthenticated

C19_LogoutEndsUnauthenticated ==
    [][\A r \in DOMAIN net : \A resp \in Replies(r) :
          handleLogoutDone(r, resp)
          => /\ store' = EmptyStore
             /\ ls' = EmptyStorage
             /\ route' = "/login"]_vars

\* C19 witness: an admin's logout whose server call failed
C19_Witness ==
    /\ lastEv = "logout:failed"
    /\ passedStep2 # {}
    /\ store = EmptyStore /\ ls = EmptyStorage
    /\ route = "/login"

\* C20 as stated: a refused step-1 login leaves the form in step 1 with no
\* temp token and the session (authStore, localStorage) as it was.
C20_FailedLoginNoTicket ==
    [][\A r \in DOMAIN net : \A resp \in Replies(r) :
          (/\ handleStep1Response(r, resp)
           /\ r.src = "form"
           /\ resp.status # 200)
          => /\ form'.step = 1
             /\ form'.tempToken = Null
             /\ store' = store /\ ls' = ls]_vars

\* C20 amended: a refused step-1 login leaves the form in step 1 with the
\* temp token state untouched and the session as it was.
C20_FailedLoginChangesNothing ==
    [][\A r \in DOMAIN net : \A resp \in Replies(r) :
          (/\ handleStep1Response(r, resp)
           /\ r.src = "form"
           /\ resp.status # 200)
          => /\ form'.step = 1
             /\ form'.tempToken = form.tempToken
             /\ store' = store /\ ls' = ls
             /\ route' = route]_vars

\* C20 witness: a refused login on top of an untouched session
C20_Witness ==
    /\ lastEv = "step1:error"
    /\ form.step = 1 /\ form.error = "InvalidCredentials"
    /\ store.isAuthenticated /\ Truthy(ls.access_token)

\* the Login form shows an error: the banner or one of the two field errors
FormShowsError(f) == f.error # "" \/ f.inputError # "" \/ f.passwordError # ""

\* C21: every submitted login step (1 or 2) of the mounted form that ends
\* without a session and without advancing to step 2 leaves a client-visible
\* error on the form.
C21_FailedStepShowsError ==
    [][(\/ \E ident \in Identifiers, pw \in Passwords :
               handleStep1Submit(ident, pw) /\ (ident = "" \/ pw = "")
        \/ handleStep2Submit("")
        \/ \E r \in DOMAIN net : \E resp \in Replies(r) :
               /\ r.src = "form"
               /\ \/ handleStep1Response(r, resp)
                  \/ handleStep2Response(r, resp)
               /\ lastEv' \notin {"step1:session", "step1:step2", "step2:session"})
       => FormShowsError(form')]_vars

\* C23: once a login has succeeded (step 1 for a user, step 2 for an admin),
\* localStorage holds all three of access_token, refresh_token and user.
C23_LoginPersistsThreeKeys ==
    [][\A r \in DOMAIN net : \A resp \in Replies(r) :
          (\/ handleStep1Response(r, resp) /\ Step1Outcome(resp) = "step1:session"
           \/ handleStep2Response(r, resp) /\ lastEv' = "step2:session")
          => /\ Truthy(ls'.access_token)
             /\ Truthy(ls'.refresh_token)
             /\ Truthy(ls'.user)]_vars

\* a token of the shape the backend mints for a session
WellFormedToken(t) == Len(t) = 3 /\ t[1] = "acc"

\* C24: initAuth validates what it restores: when the stored user does not
\* parse or the stored token is not a well-formed access token, the store
\* ends unauthenticated and the three session keys are removed.
C24_InitAuthRejectsInvalid ==
    [][(/\ InitAuthCall
        /\ Truthy(ls.access_token) /\ Truthy(ls.user)
        /\ (~JSONparses(ls.user) \/ ~WellFormedToken(ls.access_token)))
       => (store' = EmptyStore /\ ls' = EmptyStorage)]_vars

\* C26: authStore is coherent in every state the flows produce:
\* isAuthenticated is true exactly when token and user are both non-null.
C26_StoreCoherent ==
    store.isAuthenticated <=> (store.token # Null /\ store.user # NoUser)

\* C26 case: Signup's auto-login has set a session over a store that
\* initAuth had left empty
C26_Witness ==
    /\ lastEv = "signup"
    /\ store.isAuthenticated /\ store.token # Null /\ store.user = UserSummary("alice")
    /\ ls.user = JSONstringify(store.user)

\* C27: the mounted Login form never awaits two authentication requests at
\* once, so it never has two step-2 requests with the same temp token in
\* flight.
C27_OneLoginRequestInFlight ==
    /\ FormPending(net) <= 1
    /\ \A r \in DOMAIN net :
           (r.src = "form" /\ r.ep \in {LOGIN, VERIFY}) => Count(net, r) = 1
    /\ \A r1, r2 \in DOMAIN net :
           (/\ r1.ep = VERIFY /\ r2.ep = VERIFY
            /\ r1.src = "form" /\ r2.src = "form"
            /\ r1.arg = r2.arg)
           => r1 = r2

\* C27 case: a step-2 request carrying the form's temp token is in flight
\* and the form is disabled
C27_Witness ==
    /\ form.step = 2 /\ form.isLoading /\ Truthy(form.tempToken)
    /\ \E r \in DOMAIN net :
           r.src = "form" /\ r.ep = VERIFY /\ r.arg = form.tempToken /\ Count(net, r) = 1

\* the list getComparison() returns has no id twice
NoDuplicates(l) == \A j, k \in 1..Len(l) : l[j] = l[k] => j = k

\* C28: starting from an empty list, after any sequence of addToComparison,
\* toggleComparison, removeFromComparison and clearComparison the stored list
\* has at most 3 ids and no id twice; adding or toggling in an absent id
\* while the list holds 3 leaves the list as it is and returns false.
C28_ComparisonBounded ==
    /\ [](/\ Len(getComparison(comparison)) <= 3
          /\ NoDuplicates(getComparison(comparison)))
    /\ [][\A itemId \in Items :
             (/\ AddToComparisonCall(itemId) \/ ToggleComparisonCall(itemId)
              /\ Len(getComparison(comparison)) = 3
              /\ ~Includes(getComparison(comparison), itemId))
             => /\ getComparison(comparison') = getComparison(comparison)
                /\ returned' = "false"]_vars

\* C28 case: a fourth id was refused while the list held three others
C28_Witness ==
    /\ Len(getComparison(comparison)) = 3
    /\ returned = "false"
    /\ lastEv \in {"addToComparison", "toggleComparison"}
    /\ getComparison(comparison) = <<2, 4, 1>>

\* C29: a run of calls of a debounced function, each less than `wait` after
\* the one before, leads to exactly one invocation of func, `wait` after the
\* last call and with its arguments; while a call's timer is pending func has
\* not been invoked for the run and only the newest call's timer exists.
C29_DebounceCollapsesBurst ==
    /\ [](\A d \in Debounced :
              /\ calls[d].burst > 0 /\ calls[d].since < Wait
                 => /\ invoked[d] = <<>>
                    /\ \E t \in timers :
                           /\ t.fn = d /\ t.args = calls[d].args
                           /\ t.left = Wait - calls[d].since
                           /\ \A u \in timers : u.fn = d => u = t
              /\ calls[d].burst > 0 /\ calls[d].since > Wait
                 => /\ invoked[d] = <<calls[d].args>>
                    /\ \A u \in timers : u.fn # d)
    /\ [][\A t \in timers :
             DebouncedLater(t)
             => /\ calls[t.fn].since = Wait
                /\ invoked'[t.fn] = <<calls[t.fn].args>>]_vars

\* C29 case: three calls in a row were collapsed into one invocation, with
\* the arguments of the third
C29_Witness ==
    \E d \in Debounced :
        /\ calls[d].burst = 3 /\ calls[d].since > Wait
        /\ invoked[d] = <<"b">> /\ calls[d].args = "b"
        /\ lastEv = "tick"

\* the three debounced filters are all empty
DebouncedFiltersEmpty == \A d \in Debounced : home[DebouncedOf[d]] = ""

\* C30: once the three inputs have not changed for the debounce delay, each
\* debounced value equals its input; a timer only ever writes the current
\* value of its input, and after Clear All the debounced filters stay empty
\* until something is typed: no pending timer puts an earlier value back.
C30_DebouncedFiltersConverge ==
    /\ [](home.idle > Wait
          => \A d \in Debounced : home[DebouncedOf[d]] = home[InputOf[d]])
    /\ [][\A t \in timers :
             HomeLater(t) => home'[DebouncedOf[t.fn]] = home[InputOf[t.fn]]]_vars
    /\ [][handleClearFilters
          => (DebouncedFiltersEmpty' /\ \A t \in timers' : t.args = "")]_vars
    /\ [][(/\ DebouncedFiltersEmpty
           /\ \A d \in Debounced : home[InputOf[d]] = ""
           /\ \A d \in Debounced : home'[InputOf[d]] = "")
          => DebouncedFiltersEmpty']_vars

\* C30 case: Clear All emptied a search term and a minimum price that had
\* been typed, and re-armed their timers
C30_Witness ==
    /\ lastEv = "clearFilters"
    /\ home.searchTerm = "" /\ home.minPrice = "" /\ DebouncedFiltersEmpty
    /\ \E t, u \in timers :
           /\ t.fn = "debouncedSearchUpdate" /\ t.left = Wait /\ t.args = ""
           /\ u.fn = "debouncedMinPriceUpdate" /\ u.left = Wait /\ u.args = ""
    /\ home.idle = 0

\* C22: on the Manage Users page deleteUser is never issued, and never
\* pending, for the id of the user authStore holds.
C22_NeverDeletesOwnAccount ==
    /\ store.user.user_id \notin audit.deleted
    /\ \A call \in mutations : call.fn = "deleteUser" => call.userId # store.user.user_id
    /\ manage.userToDelete # store.user.user_id

\* C22 case: the admin has confirmed the deletion of two other accounts,
\* one of them an admin
C22_Witness ==
    /\ store.user.user_id = "admin1"
    /\ audit.deleted = {"alice", "admin2"}
    /\ Call("deleteUser", "admin2", "") \in mutations

\* C25: resetUserPassword or updateAdminSecurityAnswer is sent for the
\* admin's own id only after, in the same modify flow, a
\* verifyAdminSecurityAnswer call for that id was answered as verified.
C25_OwnChangeNeedsVerifiedAnswer ==
    [][\A valid \in BOOLEAN :
          (/\ handlePasswordReset(valid) \/ handleSecurityAnswerReset(valid)
           /\ mutations' # mutations
           /\ manage.userToReset = store.user.user_id)
          => store.user.user_id \in audit.verified]_vars

====
